---- MODULE Spec2Model ----
(***************************************************************************)
(* Model of select_export_cameras.py: the CameraSelector panel (a list of  *)
(* the chunk's cameras with a checkbox and a native multi-select per       *)
(* entry), the host application's document/chunk/camera graph it reads and *)
(* writes, and the dormant CameraMonitor poller.                           *)
(*                                                                         *)
(* Every handler is one atomic action (the program is single-threaded and  *)
(* event driven).  A Python exception is recorded in err; the effects the  *)
(* handler had before raising are kept.  Each action records its name in   *)
(* op and the panel/host state it started from in pre, so that a handler's *)
(* postcondition is a state predicate.                                     *)
(***************************************************************************)
EXTENDS Naturals, Sequences, FiniteSets

\* ---------------------------------------------------------------- bounds
MaxCameras == 2

\* Camera labels the host may use (unique within a chunk).
Labels == {"A", "B", "C"}

\* Paths the save dialog may return; "" is a cancelled dialog.
ExportPaths == {"/out/cameras.csv"}

Unchecked == "Unchecked"
Checked == "Checked"

NoWrite == [path |-> "", content |-> <<>>]

VARIABLES
    docState,       \* "NoDocument" | "NoChunk" | "Chunk": app.document / app.document.chunk
    cameras,        \* chunk.cameras: sequence of camera labels
    selected,       \* labels of the cameras whose camera.selected is True
    constructed,    \* the CameraSelector widget exists
    list,           \* self.list: sequence of [text, checkState, selected]
    items,          \* self.items: label -> index of its entry in list
    written,        \* the file write performed by the last operation
    op,             \* name of the last operation
    err,            \* exception the last operation raised, or "none"
    pre,            \* [list, items, selected] when the last operation started
    camera_labels,  \* CameraMonitor.camera_labels: [set, val]; set = FALSE is None
    stop,           \* CameraMonitor.stop
    emitted,        \* the last poll emitted camera_signal
    last_labels     \* camera_labels when the last poll started

hostVars == <<docState, cameras, selected>>
panelVars == <<constructed, list, items>>
monitorVars == <<camera_labels, stop, emitted, last_labels>>
vars == <<docState, cameras, selected, constructed, list, items, written,
          op, err, pre, camera_labels, stop, emitted, last_labels>>

\* ---------------------------------------------------------------- helpers
Range(s) == {s[i] : i \in DOMAIN s}

Texts(s) == [i \in DOMAIN s |-> s[i].text]

Snapshot == [list |-> list, items |-> items, selected |-> selected]

\* the empty dict {}
EmptyItems == [l \in {} |-> 0]

NoSnapshot == [list |-> <<>>, items |-> EmptyItems, selected |-> {}]

\* camera.photo.path of the camera labelled l
PhotoPath(l) == "/p/" \o l \o ".jpg"

\* QListWidgetItem(camera.label, self.list); item.setCheckState(Unchecked)
QListWidgetItem(label) ==
    [text |-> label, checkState |-> Unchecked, selected |-> FALSE]

\* self.list.selectedItems()
selectedItems(lst) == SelectSeq(lst, LAMBDA it : it.selected)

\* ------------------------------------------------- CameraSelector handlers
\* update_items that only ever sets camera.selected to True
update_items_only_selects(ds, cams, lst, sel) ==
    IF ds = "Chunk"
    THEN sel \cup {c \in Range(cams) : c \in Range(Texts(selectedItems(lst)))}
    ELSE sel

\* update_items: camera.selected = (camera.label in selected_items) for every
\* camera of the chunk.  Without a document or chunk the attribute access
\* raises and no flag is written.
update_items(ds, cams, lst, sel) ==
    IF ds = "Chunk"
    THEN {c \in Range(cams) : c \in Range(Texts(selectedItems(lst)))}
    ELSE sel

\* setSelected whose signal is handled against the selection before the change
setSelected_stale_signal(ds, cams, lst, sel, i, b) ==
    IF lst[i].selected = b
    THEN [list |-> lst, selected |-> sel]
    ELSE [list |-> [lst EXCEPT ![i].selected = b],
          selected |-> IF ds = "Chunk"
                       THEN {c \in Range(cams) : c \in Range(Texts(selectedItems(lst)))}
                       ELSE sel]

\* item.setSelected(b) on entry i.  The list's itemSelectionChanged signal is
\* connected to update_items and is emitted synchronously when, and only
\* when, the selection really changes.
setSelected(ds, cams, lst, sel, i, b) ==
    IF lst[i].selected = b
    THEN [list |-> lst, selected |-> sel]
    ELSE LET lst2 == [lst EXCEPT ![i].selected = b]
         IN  [list |-> lst2, selected |-> update_items(ds, cams, lst2, sel)]

\* self.list.clear(): the widget clears its selection model first, which
\* emits itemSelectionChanged when something was selected, then drops the
\* entries.
listClear(ds, cams, lst, sel) ==
    [list |-> <<>>,
     selected |-> IF selectedItems(lst) # <<>>
                  THEN update_items(ds, cams, [i \in DOMAIN lst |->
                                       [lst[i] EXCEPT !.selected = FALSE]], sel)
                  ELSE sel]

\* the loop of update_cameras: one unchecked entry per camera, in order
NewList(cams) == [i \in DOMAIN cams |-> QListWidgetItem(cams[i])]

\* self.items[camera.label] = item, a later assignment replacing an earlier
NewItems(cams) ==
    [l \in Range(cams) |->
        CHOOSE i \in DOMAIN cams :
            cams[i] = l /\ \A j \in DOMAIN cams : cams[j] = l => j <= i]

\* check_selected from camera i on: [list, err]
RECURSIVE check_selected_loop(_, _, _, _, _)
check_selected_loop(i, cams, sel, its, lst) ==
    IF i > Len(cams) THEN [list |-> lst, err |-> "none"]
    ELSE IF cams[i] \notin sel
         THEN check_selected_loop(i + 1, cams, sel, its, lst)
         ELSE IF cams[i] \notin DOMAIN its
              THEN [list |-> lst, err |-> "KeyError"]
              ELSE check_selected_loop(i + 1, cams, sel, its,
                       [lst EXCEPT ![its[cams[i]]].checkState = Checked])

\* clear_selected that unchecks only the natively selected entries
clear_selected_list_only_selected(its, lst) ==
    [i \in DOMAIN lst |->
        IF lst[i].selected
        THEN [lst[i] EXCEPT !.checkState = Unchecked]
        ELSE lst[i]]

\* clear_selected: every item of self.items is unchecked
clear_selected_list(its, lst) ==
    [i \in DOMAIN lst |->
        IF \E l \in DOMAIN its : its[l] = i
        THEN [lst[i] EXCEPT !.checkState = Unchecked]
        ELSE lst[i]]

\* select_checked from camera i on: [list, selected, err]
RECURSIVE select_checked_loop(_, _, _, _, _, _)
select_checked_loop(i, ds, cams, sel, its, lst) ==
    IF i > Len(cams) THEN [list |-> lst, selected |-> sel, err |-> "none"]
    ELSE IF cams[i] \notin DOMAIN its
         THEN [list |-> lst, selected |-> sel, err |-> "KeyError"]
         ELSE LET k == its[cams[i]]
                  b == lst[k].checkState # Unchecked
                  sel1 == IF b THEN sel \cup {cams[i]} ELSE sel \ {cams[i]}
                  r == setSelected(ds, cams, lst, sel1, k, b)
              IN  select_checked_loop(i + 1, ds, cams, r.selected, its, r.list)

\* get_camera(chunk, label): the camera of the chunk with that label, if any
get_camera(cams, label) == label \in Range(cams)

\* export of the checked entries instead of the natively selected ones
ExportLines_checked(cams, lst) ==
    LET resolved == SelectSeq(Texts(SelectSeq(lst, LAMBDA it : it.checkState = Checked)),
                              LAMBDA l : get_camera(cams, l))
    IN  [i \in DOMAIN resolved |->
            resolved[i] \o "," \o PhotoPath(resolved[i]) \o "\n"]

\* the lines export_cameras writes: one per selected entry that resolves
ExportLines(cams, lst) ==
    LET resolved == SelectSeq(Texts(selectedItems(lst)),
                              LAMBDA l : get_camera(cams, l))
    IN  [i \in DOMAIN resolved |->
            resolved[i] \o "," \o PhotoPath(resolved[i]) \o "\n"]

\* ------------------------------------------------------------------ state
Init ==
    /\ docState \in {"NoDocument", "NoChunk", "Chunk"}
    /\ cameras = <<>>
    /\ selected = {}
    /\ constructed = FALSE
    /\ list = <<>>
    /\ items = EmptyItems
    /\ written = NoWrite
    /\ op = "none"
    /\ err = "none"
    /\ pre = NoSnapshot
    /\ camera_labels = [set |-> FALSE, val |-> <<>>]
    /\ stop = FALSE
    /\ emitted = FALSE
    /\ last_labels = [set |-> FALSE, val |-> <<>>]

\* what a step of the host or of the user's mouse records
Untracked(name) ==
    /\ op' = name
    /\ err' = "none"
    /\ pre' = NoSnapshot
    /\ written' = NoWrite

\* ------------------------------------------------ the host application
\* The user opens or closes the document, or leaves it without a chunk.
HostSetDocument(d) ==
    /\ d # docState
    /\ docState' = d
    /\ cameras' = <<>>
    /\ selected' = {}
    /\ Untracked("host")
    /\ UNCHANGED <<panelVars, monitorVars>>

\* A photo is added to the chunk.
HostAddCamera(l) ==
    /\ docState = "Chunk"
    /\ Len(cameras) < MaxCameras
    /\ l \notin Range(cameras)
    /\ cameras' = Append(cameras, l)
    /\ Untracked("host")
    /\ UNCHANGED <<docState, selected, panelVars, monitorVars>>

\* A camera is removed from the chunk.
HostRemoveCamera(i) ==
    /\ docState = "Chunk"
    /\ i \in DOMAIN cameras
    /\ cameras' = SubSeq(cameras, 1, i - 1) \o SubSeq(cameras, i + 1, Len(cameras))
    /\ selected' = selected \ {cameras[i]}
    /\ Untracked("host")
    /\ UNCHANGED <<docState, panelVars, monitorVars>>

\* The user selects or deselects a camera in the host's own views.
HostToggleSelected(l) ==
    /\ docState = "Chunk"
    /\ l \in Range(cameras)
    /\ selected' = IF l \in selected THEN selected \ {l} ELSE selected \cup {l}
    /\ Untracked("host")
    /\ UNCHANGED <<docState, cameras, panelVars, monitorVars>>

\* ------------------------------------------------------ the panel
\* update_cameras without the list.clear(): the new entries follow the old
UpdateCameras_no_clear(ds, cams, lst, sel) ==
    IF ds = "Chunk"
    THEN [list |-> lst \o NewList(cams), items |-> NewItems(cams),
          selected |-> sel, err |-> "none"]
    ELSE [list |-> lst, items |-> EmptyItems,
          selected |-> sel, err |-> "AttributeError"]

\* update_cameras on the panel state (lst, sel): [list, items, selected, err]
UpdateCameras(ds, cams, lst, sel) ==
    LET c == listClear(ds, cams, lst, sel)
    IN  IF ds = "Chunk"
        THEN [list |-> NewList(cams), items |-> NewItems(cams),
              selected |-> c.selected, err |-> "none"]
        ELSE [list |-> <<>>, items |-> EmptyItems,
              selected |-> c.selected, err |-> "AttributeError"]

\* CameraSelector.__init__: an empty list and dict, then update_cameras.  An
\* exception leaves the application without the panel.
CameraSelector_init ==
    /\ ~constructed
    /\ LET r == UpdateCameras(docState, cameras, <<>>, selected)
       IN  /\ constructed' = (r.err = "none")
           /\ list' = r.list
           /\ items' = r.items
           /\ selected' = r.selected
           /\ err' = r.err
    /\ op' = "CameraSelector.__init__"
    /\ pre' = Snapshot
    /\ written' = NoWrite
    /\ UNCHANGED <<docState, cameras, monitorVars>>

\* the "Update Cameras" button
update_cameras ==
    /\ constructed
    /\ LET r == UpdateCameras(docState, cameras, list, selected)
       IN  /\ list' = r.list
           /\ items' = r.items
           /\ selected' = r.selected
           /\ err' = r.err
    /\ op' = "update_cameras"
    /\ pre' = Snapshot
    /\ written' = NoWrite
    /\ UNCHANGED <<docState, cameras, constructed, monitorVars>>

\* the "Add Selected" button
check_selected ==
    /\ constructed
    /\ IF docState = "Chunk"
       THEN LET r == check_selected_loop(1, cameras, selected, items, list)
            IN  list' = r.list /\ err' = r.err
       ELSE list' = list /\ err' = "AttributeError"
    /\ op' = "check_selected"
    /\ pre' = Snapshot
    /\ written' = NoWrite
    /\ UNCHANGED <<hostVars, constructed, items, monitorVars>>

\* Clear that also deselects the cameras in the host
clear_selected_deselects ==
    /\ constructed
    /\ list' = clear_selected_list(items, list)
    /\ selected' = {}
    /\ op' = "clear_selected"
    /\ err' = "none"
    /\ pre' = Snapshot
    /\ written' = NoWrite
    /\ UNCHANGED <<docState, cameras, constructed, items, monitorVars>>

\* the "Clear" button
clear_selected ==
    /\ constructed
    /\ list' = clear_selected_list(items, list)
    /\ op' = "clear_selected"
    /\ err' = "none"
    /\ pre' = Snapshot
    /\ written' = NoWrite
    /\ UNCHANGED <<hostVars, constructed, items, monitorVars>>

\* the "Select Checked" button
select_checked ==
    /\ constructed
    /\ IF docState = "Chunk"
       THEN LET r == select_checked_loop(1, docState, cameras, selected, items, list)
            IN  list' = r.list /\ selected' = r.selected /\ err' = r.err
       ELSE list' = list /\ selected' = selected /\ err' = "AttributeError"
    /\ op' = "select_checked"
    /\ pre' = Snapshot
    /\ written' = NoWrite
    /\ UNCHANGED <<docState, cameras, constructed, items, monitorVars>>

\* The user ticks or unticks the checkbox of entry i (no slot is connected).
UserToggleCheck(i) ==
    /\ constructed
    /\ i \in DOMAIN list
    /\ list' = [list EXCEPT ![i].checkState =
                   IF @ = Unchecked THEN Checked ELSE Unchecked]
    /\ Untracked("user")
    /\ UNCHANGED <<hostVars, constructed, items, monitorVars>>

\* The user changes the native multi-select to the entries S; the list emits
\* itemSelectionChanged, whose slot is update_items.
UserSelect(S) ==
    /\ constructed
    /\ S \subseteq DOMAIN list
    /\ S # {i \in DOMAIN list : list[i].selected}
    /\ LET lst == [i \in DOMAIN list |-> [list[i] EXCEPT !.selected = (i \in S)]]
       IN  /\ list' = lst
           /\ selected' = update_items(docState, cameras, lst, selected)
           /\ pre' = [Snapshot EXCEPT !.list = lst]
    /\ op' = "update_items"
    /\ err' = IF docState = "Chunk" THEN "none" ELSE "AttributeError"
    /\ written' = NoWrite
    /\ UNCHANGED <<docState, cameras, constructed, items, monitorVars>>

\* Export that falls back to the default path when the dialog is cancelled
export_cameras_default_path(answer, lookupRaises) ==
    /\ constructed
    /\ LET labels == Texts(selectedItems(list))
           raised == \/ docState = "NoDocument"
                     \/ docState = "NoChunk" /\ labels # <<>> /\ lookupRaises
       IN  /\ err' = IF raised THEN "AttributeError" ELSE "none"
           /\ written' = IF raised
                         THEN NoWrite
                         ELSE [path |-> IF answer = "" THEN "cameras.csv" ELSE answer,
                               content |-> ExportLines(cameras, list)]
           /\ op' = IF raised THEN "export_cameras:raised"
                    ELSE IF answer = "" THEN "export_cameras:cancelled"
                    ELSE "export_cameras:confirmed"
    /\ pre' = Snapshot
    /\ UNCHANGED <<hostVars, panelVars, monitorVars>>

\* the "Export" button; answer is what the save dialog returns.  get_camera
\* is only called when something is selected, and on a missing chunk it
\* either raises or finds nothing (lookupRaises).
export_cameras(answer, lookupRaises) ==
    /\ constructed
    /\ LET labels == Texts(selectedItems(list))
           raised == \/ docState = "NoDocument"
                     \/ docState = "NoChunk" /\ labels # <<>> /\ lookupRaises
       IN  /\ err' = IF raised THEN "AttributeError" ELSE "none"
           /\ written' = IF raised \/ answer = ""
                         THEN NoWrite
                         ELSE [path |-> answer,
                               content |-> ExportLines(cameras, list)]
           /\ op' = IF raised THEN "export_cameras:raised"
                    ELSE IF answer = "" THEN "export_cameras:cancelled"
                    ELSE "export_cameras:confirmed"
    /\ pre' = Snapshot
    /\ UNCHANGED <<hostVars, panelVars, monitorVars>>

\* ------------------------------------------------------ the monitor
\* one iteration of the loop of CameraMonitor.monitor_cameras
monitor_cameras ==
    /\ ~stop
    /\ IF docState # "Chunk"
       THEN camera_labels' = camera_labels /\ emitted' = FALSE
       ELSE IF ~camera_labels.set \/ camera_labels.val = <<>>
            THEN /\ camera_labels' = [set |-> TRUE, val |-> cameras]
                 /\ emitted' = FALSE
            ELSE IF cameras # camera_labels.val
                 THEN /\ camera_labels' = [set |-> TRUE, val |-> cameras]
                      /\ emitted' = TRUE
                 ELSE camera_labels' = camera_labels /\ emitted' = FALSE
    /\ last_labels' = camera_labels
    /\ Untracked("monitor_cameras")
    /\ UNCHANGED <<hostVars, panelVars, stop>>

\* self.stop = True
monitor_stop ==
    /\ ~stop
    /\ stop' = TRUE
    /\ emitted' = FALSE
    /\ Untracked("monitor_stop")
    /\ UNCHANGED <<hostVars, panelVars, camera_labels, last_labels>>

\* ------------------------------------------------------ specifications
Host ==
    \/ \E d \in {"NoDocument", "NoChunk", "Chunk"} : HostSetDocument(d)
    \/ \E l \in Labels : HostAddCamera(l)
    \/ \E i \in DOMAIN cameras : HostRemoveCamera(i)
    \/ \E l \in Labels : HostToggleSelected(l)

\* The shipped program: the panel, with the monitor never started.
Next ==
    \/ Host
    \/ CameraSelector_init
    \/ update_cameras
    \/ check_selected
    \/ clear_selected
    \/ select_checked
    \/ \E i \in DOMAIN list : UserToggleCheck(i)
    \/ \E S \in SUBSET DOMAIN list : UserSelect(S)
    \/ \E answer \in {""} \cup ExportPaths, lookupRaises \in BOOLEAN :
           export_cameras(answer, lookupRaises)

Spec == Init /\ [][Next]_vars

\* The monitor running against the host.
MonitorNext ==
    \/ Host
    \/ monitor_cameras
    \/ monitor_stop

MonitorSpec == Init /\ [][MonitorNext]_vars

\* ------------------------------------------------------------ properties
IsChecked(it) == it.checkState = Checked

ExportOps ==
    {"export_cameras:raised", "export_cameras:cancelled", "export_cameras:confirmed"}

\* the list shows exactly the chunk's cameras, in order
ListIsCurrent(lst) == docState = "Chunk" /\ Texts(lst) = cameras

\* entries keep their text, checkbox and position
SameChecks(l1, l2) ==
    /\ Len(l1) = Len(l2)
    /\ \A i \in DOMAIN l1 :
           l1[i].text = l2[i].text /\ l1[i].checkState = l2[i].checkState

\* entries keep their text, native highlight and position
SameHighlights(l1, l2) ==
    /\ Len(l1) = Len(l2)
    /\ \A i \in DOMAIN l1 :
           l1[i].text = l2[i].text /\ l1[i].selected = l2[i].selected

\* C1: after Push on a list refreshed from the current cameras, no error was
\* raised and, for every camera, the host flag is true iff its entry is
\* checked, and the entry's native highlight has that same value.
C1_PushMirrorsChecks ==
    (op = "select_checked" /\ ListIsCurrent(pre.list)) =>
        /\ err = "none"
        /\ SameChecks(list, pre.list)
        /\ \A i \in DOMAIN list :
               /\ (list[i].text \in selected) = IsChecked(list[i])
               /\ list[i].selected = IsChecked(list[i])

\* Push ran on two entries that disagreed in both directions: a checked one
\* neither highlighted nor host-selected, after an unchecked one that was both.
C1_Witness ==
    /\ op = "select_checked"
    /\ ListIsCurrent(pre.list)
    /\ Len(list) = 2
    /\ ~IsChecked(pre.list[1]) /\ pre.list[1].selected
    /\ pre.list[1].text \in pre.selected
    /\ IsChecked(pre.list[2]) /\ ~pre.list[2].selected
    /\ pre.list[2].text \notin pre.selected

\* C2: Refresh with a chunk open leaves one unchecked entry per camera, with
\* the cameras' labels in the cameras' order, and the entry map keyed by
\* exactly those labels; an empty chunk gives an empty list and map.
C2_RefreshMirrorsCameras ==
    (op \in {"update_cameras", "CameraSelector.__init__"} /\ docState = "Chunk") =>
        /\ err = "none"
        /\ Len(list) = Len(cameras)
        /\ Texts(list) = cameras
        /\ \A i \in DOMAIN list : list[i].checkState = Unchecked
        /\ DOMAIN items = Range(cameras)
        /\ \A l \in DOMAIN items : list[items[l]].text = l
        /\ (cameras = <<>> => list = <<>> /\ items = EmptyItems)

\* Refresh replaced a list with a checked entry by one for two cameras in
\* another order.
C2_Witness ==
    /\ op = "update_cameras"
    /\ docState = "Chunk"
    /\ Len(cameras) = 2
    /\ Len(pre.list) = 2
    /\ Texts(pre.list) # cameras
    /\ \E i \in DOMAIN pre.list : IsChecked(pre.list[i])

\* C3: Refresh without a document or chunk raises nothing and leaves the
\* list, the entry map and the host as they were.
C3_RefreshWithoutChunkIsQuiet ==
    (op \in {"update_cameras", "CameraSelector.__init__"} /\ docState # "Chunk") =>
        /\ err = "none"
        /\ list = pre.list
        /\ items = pre.items
        /\ selected = pre.selected

\* C4 as stated: Refresh, Pull, Clear, the selection-changed reaction and
\* Export change no camera's host selection flag.
C4_OnlyPushWritesHost ==
    op \in {"update_cameras", "check_selected", "clear_selected", "update_items"}
             \cup ExportOps
        => selected = pre.selected

\* C4 amended: Pull, Clear and Export change no camera's host selection flag.
C4_PullClearExportKeepHost ==
    op \in {"check_selected", "clear_selected"} \cup ExportOps
        => selected = pre.selected

\* Clear unchecked something while cameras were host-selected.
C4_Witness ==
    /\ op = "clear_selected"
    /\ selected # {}
    /\ \E i \in DOMAIN pre.list : IsChecked(pre.list[i])

\* C5: Pull checks exactly the entries whose camera is host-selected, leaves
\* the other checkboxes as they were, and changes no host flag and no
\* native highlight.
C5_PullChecksHostSelected ==
    op = "check_selected" =>
        /\ Len(list) = Len(pre.list)
        /\ \A i \in DOMAIN list :
               list[i].checkState =
                   IF list[i].text \in selected THEN Checked
                   ELSE pre.list[i].checkState
        /\ SameHighlights(list, pre.list)
        /\ selected = pre.selected

\* C6: the selection-changed reaction leaves each camera of the chunk
\* host-selected iff its label is the text of a highlighted entry, and
\* changes no checkbox.
C6_ReactionMirrorsHighlight ==
    op = "update_items" =>
        /\ SameChecks(list, pre.list)
        /\ docState = "Chunk" =>
               /\ err = "none"
               /\ \A c \in Range(cameras) :
                      (c \in selected) =
                          (\E i \in DOMAIN list : list[i].selected /\ list[i].text = c)
               /\ selected \subseteq Range(cameras)

\* The reaction deselected a camera and selected another, against the
\* checkboxes: the highlighted entry is unchecked, a checked one is not
\* highlighted.
C6_Witness ==
    /\ op = "update_items"
    /\ docState = "Chunk"
    /\ \E c \in pre.selected : c \notin selected
    /\ \E c \in selected : c \notin pre.selected
    /\ \E i \in DOMAIN list : list[i].selected /\ ~IsChecked(list[i])
    /\ \E i \in DOMAIN list : ~list[i].selected /\ IsChecked(list[i])

\* the highlighted entries whose label is a camera of the chunk, in list order
C7_ResolvedEntries ==
    SelectSeq(list, LAMBDA it : it.selected /\ it.text \in Range(cameras))

C8_CancelledExportDoesNothing ==
    op = "export_cameras:cancelled" =>
        /\ written = NoWrite
        /\ err = "none"
        /\ list = pre.list
        /\ items = pre.items
        /\ selected = pre.selected

\* A cancelled Export with a highlighted entry that would have been written.
C8_Witness ==
    /\ op = "export_cameras:cancelled"
    /\ ExportLines(cameras, list) # <<>>

\* C9: Clear leaves every entry unchecked and changes no host flag and no
\* native highlight.
C9_ClearUnchecksAll ==
    op = "clear_selected" =>
        /\ \A i \in DOMAIN list : list[i].checkState = Unchecked
        /\ SameHighlights(list, pre.list)
        /\ selected = pre.selected

\* Clear unchecked an entry that was not highlighted, next to a highlighted
\* entry, with a camera host-selected.
C9_Witness ==
    /\ op = "clear_selected"
    /\ \E i \in DOMAIN pre.list : IsChecked(pre.list[i]) /\ ~pre.list[i].selected
    /\ \E i \in DOMAIN list : list[i].selected
    /\ selected # {}

\* C10: a poll with a chunk open and an observation recorded emits the
\* signal iff the labels it reads differ from the recorded ones, an empty
\* recorded sequence included.
C10_MonitorEmitsOnEveryChange ==
    (op = "monitor_cameras" /\ docState = "Chunk" /\ last_labels.set) =>
        (emitted = (cameras # last_labels.val))

====
